---- MODULE Spec2Model ----
(***************************************************************************)
(* Exponential-phase detection of growth_curve.py.                         *)
(*                                                                         *)
(* detect_exponential_phase scans every window [start, end) of a series,   *)
(* fits ln(OD) against time by least squares and keeps the steepest window *)
(* whose R^2 exceeds a threshold.  The per-replicate loop of the script    *)
(* calls it once per OD column and refits the returned window.             *)
(*                                                                         *)
(* Numbers.  The floating-point values of the program are modelled as      *)
(* exact rationals [num, den] in lowest terms with den > 0; den = 0 marks  *)
(* the non-finite values (0/0 is NaN, 1/0 is +inf).  OD values are powers  *)
(* of two (or non-positive), and logarithms are taken to base 2: a slope   *)
(* of the model is the program's slope divided by ln 2, which changes no   *)
(* comparison of two slopes, no comparison with 0, and no R^2; the         *)
(* doubling time ln(2)/slope is 1/slope of the model.  Rounding is not     *)
(* modelled: two windows whose exact slopes are equal have equal slopes    *)
(* here, while the program's doubles may differ in their last bits.        *)
(***************************************************************************)
EXTENDS Integers, Sequences, FiniteSets, TLC

VARIABLES
    time,                \* the time vector of the call
    od_values,           \* the OD vector of the call
    min_window_size,
    max_window_size,
    r_squared_threshold,
    window_size,         \* outer loop variable (next size to scan)
    start,               \* inner loop variable (next start to scan)
    best_start,
    best_end,
    best_window_size,
    best_slope,
    best_r_squared,
    pc,                  \* "idle", "scan", "returned"
    data,                \* the data frame: column name -> OD vector
    col,                 \* position of the per-replicate loop in Columns
    dpc,                 \* "none", "call", "wait", "done"
    growth_rates,
    doubling_times,
    r_squared_values

detectVars == <<time, od_values, min_window_size, max_window_size,
                r_squared_threshold, window_size, start, best_start, best_end,
                best_window_size, best_slope, best_r_squared, pc>>
driverVars == <<data, col, dpc, growth_rates, doubling_times, r_squared_values>>
vars == <<detectVars, driverVars>>

(***************************************************************************)
(* Bounds of the model.                                                    *)
(***************************************************************************)
MaxLen == 4                       \* longest series of a direct call
MaxDriverLen == 4                 \* longest data frame of the script

ODValues == {-1, 0, 1, 2, 4}      \* OD readings: non-positive, or 2^k
DriverODValues == {1, 2, 4}
TimeGaps == {1, 2}                \* sampling intervals
MinSizes == {2, 3}
MaxSizes == {2, 4}

(***************************************************************************)
(* Rational arithmetic standing for the program's floats.                  *)
(***************************************************************************)
Abs(x) == IF x < 0 THEN -x ELSE x

RECURSIVE GCD(_, _)
GCD(a, b) == IF b = 0 THEN a ELSE GCD(b, a % b)

Rat(n, d) ==
    IF d = 0 THEN [num |-> IF n > 0 THEN 1 ELSE IF n < 0 THEN -1 ELSE 0, den |-> 0]
    ELSE LET g == GCD(Abs(n), Abs(d))
             s == IF d < 0 THEN -1 ELSE 1
         IN  [num |-> s * (n \div g), den |-> s * (d \div g)]

NaN == [num |-> 0, den |-> 0]
Zero == [num |-> 0, den |-> 1]
IsNaN(r) == r.den = 0 /\ r.num = 0
IsFinite(r) == r.den # 0

\* a > b on floats: false as soon as one side is NaN
GT(a, b) == /\ ~IsNaN(a)
            /\ ~IsNaN(b)
            /\ IF a.den # 0 /\ b.den # 0 THEN a.num * b.den > b.num * a.den
               ELSE IF a.den = 0 /\ b.den = 0 THEN a.num > b.num
               ELSE IF a.den = 0 THEN a.num > 0
               ELSE b.num < 0

\* a / b on floats (numpy: x/0 is +-inf, 0/0 is NaN, no exception)
Div(a, b) == IF IsNaN(a) \/ IsNaN(b) THEN NaN
             ELSE Rat(a.num * b.den, a.den * b.num)

One == [num |-> 1, den |-> 1]
DefaultThreshold == Rat(4, 5)
Thresholds == {Rat(1, 2), DefaultThreshold}

(***************************************************************************)
(* time[start:end], np.log and linregress.                                 *)
(***************************************************************************)
Min(a, b) == IF a < b THEN a ELSE b

\* s[a:b] of Python (0-based, end exclusive, clipped to the length)
Slice(s, a, b) == SubSeq(s, a + 1, Min(b, Len(s)))

RECURSIVE Log2(_)
Log2(v) == IF v <= 1 THEN 0 ELSE 1 + Log2(v \div 2)

\* (mutant) readings are clipped to 1 before the logarithm
Log_Clipped(v) == [fin |-> TRUE, val |-> IF v > 0 THEN Log2(v) ELSE 0]

\* np.log of one reading: -inf at 0 and NaN below 0 (a warning, no
\* exception), the logarithm otherwise
Log(v) == IF v > 0 THEN [fin |-> TRUE, val |-> Log2(v)]
          ELSE [fin |-> FALSE, val |-> 0]

RECURSIVE SumTo(_, _)
SumTo(f, n) == IF n = 0 THEN 0 ELSE f[n] + SumTo(f, n - 1)

\* linregress(t, np.log(od)): slope and r_value**2
Fit(t, od) ==
    LET n == Len(t)
        y == [i \in 1..n |-> Log(od[i])]
    IN  IF \E i \in 1..n : ~y[i].fin
        THEN [slope |-> NaN, r_squared |-> NaN]
        ELSE LET Sx  == SumTo([i \in 1..n |-> t[i]], n)
                 Sy  == SumTo([i \in 1..n |-> y[i].val], n)
                 Stt == SumTo([i \in 1..n |-> t[i] * t[i]], n)
                 Sty == SumTo([i \in 1..n |-> t[i] * y[i].val], n)
                 Syy == SumTo([i \in 1..n |-> y[i].val * y[i].val], n)
                 ssxm  == n * Stt - Sx * Sx
                 ssxym == n * Sty - Sx * Sy
                 ssym  == n * Syy - Sy * Sy
             IN  [slope |-> Rat(ssxym, ssxm),
                  r_squared |-> IF ssxm = 0 \/ ssym = 0 THEN Zero
                                ELSE Rat(ssxym * ssxym, ssxm * ssym)]

\* the fit of window [s, e) of the current call
WindowFit(s, e) == Fit(Slice(time, s, e), Slice(od_values, s, e))

(***************************************************************************)
(* detect_exponential_phase                                                *)
(***************************************************************************)
\* lines 29-31, and the entry of the two loops
DetectEntry(t, od, minw, maxw, thr) ==
    /\ time' = t
    /\ od_values' = od
    /\ min_window_size' = minw
    /\ max_window_size' = maxw
    /\ r_squared_threshold' = thr
    /\ best_r_squared' = Zero
    /\ best_slope' = Zero
    /\ best_start' = 0
    /\ best_end' = minw
    /\ best_window_size' = minw
    /\ window_size' = minw
    /\ start' = 0
    /\ pc' = "scan"

\* (mutant) the slope is compared with 0, so that the latest qualifying
\* window of positive slope wins
Replaces_LatestWins(fit) ==
    /\ GT(fit.r_squared, r_squared_threshold)
    /\ GT(fit.slope, Zero)

\* (mutant) the threshold gate is missing
Replaces_NoGate(fit) == GT(fit.slope, best_slope)

\* (mutant) the threshold gate is r_squared >= threshold
Replaces_GateNonStrict(fit) ==
    /\ ~IsNaN(fit.r_squared)
    /\ ~GT(r_squared_threshold, fit.r_squared)
    /\ GT(fit.slope, best_slope)

\* (mutant) the slope comparison is slope >= best_slope
Replaces_NonStrict(fit) ==
    /\ GT(fit.r_squared, r_squared_threshold)
    /\ ~IsNaN(fit.slope)
    /\ ~GT(best_slope, fit.slope)

\* the condition of line 39
Replaces(fit) ==
    /\ GT(fit.r_squared, r_squared_threshold)
    /\ GT(fit.slope, best_slope)

\* (mutant) line 40 is missing: best_r_squared is never assigned
ScanStep_StaleRSquared ==
    /\ pc = "scan"
    /\ window_size <= max_window_size
    /\ start + window_size <= Len(time)
    /\ LET end == start + window_size
           fit == Fit(Slice(time, start, end), Slice(od_values, start, end))
       IN  IF GT(fit.r_squared, r_squared_threshold) /\ GT(fit.slope, best_slope)
           THEN /\ best_slope' = fit.slope
                /\ best_start' = start
                /\ best_end' = end
                /\ best_window_size' = window_size
                /\ UNCHANGED best_r_squared
           ELSE UNCHANGED <<best_r_squared, best_slope, best_start, best_end,
                            best_window_size>>
    /\ start' = start + 1
    /\ UNCHANGED <<time, od_values, min_window_size, max_window_size,
                   r_squared_threshold, window_size, pc>>
    /\ UNCHANGED <<data, col, dpc, growth_rates, doubling_times, r_squared_values>>

\* (mutant) line 42 assigns best_start and best_end only
ScanStep_StaleWindowSize ==
    /\ pc = "scan"
    /\ window_size <= max_window_size
    /\ start + window_size <= Len(time)
    /\ LET end == start + window_size
           fit == Fit(Slice(time, start, end), Slice(od_values, start, end))
       IN  IF GT(fit.r_squared, r_squared_threshold) /\ GT(fit.slope, best_slope)
           THEN /\ best_r_squared' = fit.r_squared
                /\ best_slope' = fit.slope
                /\ best_start' = start
                /\ best_end' = end
                /\ UNCHANGED best_window_size
           ELSE UNCHANGED <<best_r_squared, best_slope, best_start, best_end,
                            best_window_size>>
    /\ start' = start + 1
    /\ UNCHANGED <<time, od_values, min_window_size, max_window_size,
                   r_squared_threshold, window_size, pc>>
    /\ UNCHANGED <<data, col, dpc, growth_rates, doubling_times, r_squared_values>>

\* one iteration of the inner loop, lines 35-42
ScanStep ==
    /\ pc = "scan"
    /\ window_size <= max_window_size
    /\ start + window_size <= Len(time)
    /\ LET end == start + window_size
           fit == WindowFit(start, end)
       IN  IF Replaces(fit)
           THEN /\ best_r_squared' = fit.r_squared
                /\ best_slope' = fit.slope
                /\ best_start' = start
                /\ best_end' = end
                /\ best_window_size' = window_size
           ELSE UNCHANGED <<best_r_squared, best_slope, best_start, best_end,
                            best_window_size>>
    /\ start' = start + 1
    /\ UNCHANGED <<time, od_values, min_window_size, max_window_size,
                   r_squared_threshold, window_size, pc>>
    /\ UNCHANGED driverVars

\* the inner range is exhausted: next window_size of line 33
NextWindowSize ==
    /\ pc = "scan"
    /\ window_size <= max_window_size
    /\ start + window_size > Len(time)
    /\ window_size' = window_size + 1
    /\ start' = 0
    /\ UNCHANGED <<time, od_values, min_window_size, max_window_size,
                   r_squared_threshold, best_start, best_end, best_window_size,
                   best_slope, best_r_squared, pc>>
    /\ UNCHANGED driverVars

\* the outer range is exhausted: line 44
Return ==
    /\ pc = "scan"
    /\ window_size > max_window_size
    /\ pc' = "returned"
    /\ UNCHANGED <<time, od_values, min_window_size, max_window_size,
                   r_squared_threshold, window_size, start, best_start, best_end,
                   best_window_size, best_slope, best_r_squared>>
    /\ UNCHANGED driverVars

(***************************************************************************)
(* Inputs of a direct call.                                                *)
(***************************************************************************)
\* strictly increasing time vectors of length n starting at 0, sampled at
\* intervals that alternate between two gaps (uniform when they are equal)
TimeOf(g, n) ==
    [i \in 1..n |-> SumTo([k \in 1..n |-> IF k % 2 = 1 THEN g[1] ELSE g[2]], i - 1)]
TimeSeqs(n) == {TimeOf(g, n) : g \in TimeGaps \X TimeGaps}
ODSeqs(n, values) == [1..n -> values]

\* the perfect-doubling scenario
ScenarioTime == <<0, 1, 2, 3, 4, 5>>
ScenarioOD == <<1, 2, 4, 8, 16, 32>>

IsScenario == /\ time = ScenarioTime
              /\ od_values = ScenarioOD
              /\ min_window_size = 3
              /\ max_window_size = 5
              /\ r_squared_threshold = DefaultThreshold

NoDriver ==
    /\ data = <<>>
    /\ col = 0
    /\ dpc = "none"
    /\ growth_rates = <<>>
    /\ doubling_times = <<>>
    /\ r_squared_values = <<>>

InitBest ==
    /\ best_r_squared = Zero
    /\ best_slope = Zero
    /\ best_start = 0
    /\ best_end = min_window_size
    /\ best_window_size = min_window_size
    /\ window_size = min_window_size
    /\ start = 0
    /\ pc = "scan"

Init ==
    /\ \/ \E n \in 0..MaxLen :
             /\ time \in TimeSeqs(n)
             /\ od_values \in ODSeqs(n, ODValues)
             /\ min_window_size \in MinSizes
             /\ max_window_size \in MaxSizes
             /\ r_squared_threshold \in Thresholds
       \/ IsScenario
    /\ InitBest
    /\ NoDriver

Next == ScanStep \/ NextWindowSize \/ Return

Spec == Init /\ [][Next]_vars

(***************************************************************************)
(* The per-replicate loop of the script, lines 58-78.                      *)
(***************************************************************************)
Columns == <<"Replicate1", "Replicate2">>     \* data.columns[1:]

DefaultMinWindowSize == 3
DefaultMaxWindowSize == 7

\* line 63: the call, with the default parameters of line 28
DriverCall ==
    /\ dpc = "call"
    /\ col <= Len(Columns)
    /\ DetectEntry(time, data[Columns[col]], DefaultMinWindowSize,
                   DefaultMaxWindowSize, DefaultThreshold)
    /\ dpc' = "wait"
    /\ UNCHANGED <<data, col, growth_rates, doubling_times, r_squared_values>>

\* (mutant) the refit slices [start_index, end_index - 1)
DriverRefit_ShortSlice ==
    /\ dpc = "wait"
    /\ pc = "returned"
    /\ LET refit == Fit(Slice(time, best_start, best_end - 1),
                        Slice(od_values, best_start, best_end - 1))
       IN  /\ growth_rates' = Append(growth_rates, refit.slope)
           /\ doubling_times' = Append(doubling_times, Div(One, refit.slope))
           /\ r_squared_values' = Append(r_squared_values, refit.r_squared)
    /\ col' = col + 1
    /\ dpc' = "call"
    /\ pc' = "idle"
    /\ UNCHANGED <<time, od_values, min_window_size, max_window_size,
                   r_squared_threshold, window_size, start, best_start, best_end,
                   best_window_size, best_slope, best_r_squared, data>>

\* lines 66-78: refit of [start_index, end_index) and the three appends
DriverRefit ==
    /\ dpc = "wait"
    /\ pc = "returned"
    /\ LET start_index == best_start
           end_index == best_end
           time_exp == Slice(time, start_index, end_index)
           od_exp == Slice(od_values, start_index, end_index)
           refit == Fit(time_exp, od_exp)
           growth_rate == refit.slope
           doubling_time == Div(One, growth_rate)
       IN  /\ growth_rates' = Append(growth_rates, growth_rate)
           /\ doubling_times' = Append(doubling_times, doubling_time)
           /\ r_squared_values' = Append(r_squared_values, refit.r_squared)
    /\ col' = col + 1
    /\ dpc' = "call"
    /\ pc' = "idle"
    /\ UNCHANGED <<time, od_values, min_window_size, max_window_size,
                   r_squared_threshold, window_size, start, best_start, best_end,
                   best_window_size, best_slope, best_r_squared, data>>

\* the loop of line 62 is exhausted
DriverDone ==
    /\ dpc = "call"
    /\ col > Len(Columns)
    /\ dpc' = "done"
    /\ UNCHANGED detectVars
    /\ UNCHANGED <<data, col, growth_rates, doubling_times, r_squared_values>>

\* line 46: a data frame with the time column 0, 1, 2, ... of the example
\* of lines 16-19 and one OD column per replicate
DriverInit ==
    /\ \E n \in 2..MaxDriverLen :
          /\ time = [i \in 1..n |-> i - 1]
          /\ data \in [{Columns[c] : c \in 1..Len(Columns)} -> ODSeqs(n, DriverODValues)]
    /\ od_values = <<>>
    /\ min_window_size = DefaultMinWindowSize
    /\ max_window_size = DefaultMaxWindowSize
    /\ r_squared_threshold = DefaultThreshold
    /\ best_r_squared = Zero
    /\ best_slope = Zero
    /\ best_start = 0
    /\ best_end = 0
    /\ best_window_size = 0
    /\ window_size = 0
    /\ start = 0
    /\ pc = "idle"
    /\ col = 1
    /\ dpc = "call"
    /\ growth_rates = <<>>
    /\ doubling_times = <<>>
    /\ r_squared_values = <<>>

DriverNext == \/ DriverCall
              \/ ScanStep
              \/ NextWindowSize
              \/ Return
              \/ DriverRefit
              \/ DriverDone

DriverSpec == DriverInit /\ [][DriverNext]_vars

(***************************************************************************)
(* Vocabulary of the properties.                                           *)
(***************************************************************************)
\* the search space: <<window_size, start>> of every candidate window
Candidates ==
    {w \in (min_window_size..max_window_size) \X (0..Len(time)) :
        w[2] + w[1] <= Len(time)}

FitOf(w) == WindowFit(w[2], w[2] + w[1])
Qualifies(w) == GT(FitOf(w).r_squared, r_squared_threshold)
\* a <= b on floats
LE(a, b) == ~IsNaN(a) /\ ~IsNaN(b) /\ ~GT(a, b)
\* a is scanned before b
ScannedBefore(a, b) == a[1] < b[1] \/ (a[1] = b[1] /\ a[2] < b[2])
HasNonPositive(w) == \E i \in (w[2] + 1)..(w[2] + w[1]) : od_values[i] <= 0

Returned == pc = "returned"
Result == <<best_start, best_end, best_window_size, best_slope, best_r_squared>>
Fallback == <<0, min_window_size, min_window_size, Zero, Zero>>
ReturnedWindow == <<best_window_size, best_start>>

(***************************************************************************)
(* C1  Steepest-qualifying: once every candidate window has been scanned,  *)
(* no candidate whose R^2 is strictly greater than the threshold has a     *)
(* slope strictly greater than the returned slope.                         *)
(***************************************************************************)
C1_SteepestQualifying ==
    Returned =>
        \A w \in Candidates : Qualifies(w) => ~GT(FitOf(w).slope, best_slope)

\* a call returned where two qualifying windows of different positive
\* slopes were scanned, the less steep one first
C1_Witness ==
    /\ Returned
    /\ \E v, w \in Candidates :
          /\ Qualifies(v) /\ Qualifies(w)
          /\ ScannedBefore(v, w)
          /\ GT(FitOf(v).slope, Zero)
          /\ GT(FitOf(w).slope, FitOf(v).slope)

(***************************************************************************)
(* C2  Bounds: for any returned result, 0 <= start < end <= len(time),     *)
(* min_window_size <= window_size <= max_window_size and                   *)
(* end - start = window_size.                                              *)
(***************************************************************************)
C2_Bounds ==
    Returned =>
        /\ 0 <= best_start
        /\ best_start < best_end
        /\ best_end <= Len(time)
        /\ min_window_size <= best_window_size
        /\ best_window_size <= max_window_size
        /\ best_end - best_start = best_window_size

(***************************************************************************)
(* C3  As claimed: if any candidate window has R^2 strictly greater than   *)
(* the threshold, whatever its slope, the returned r_squared is strictly   *)
(* greater than the threshold.                                             *)
(***************************************************************************)
C3_AnyQualifyingWindow ==
    (Returned /\ \E w \in Candidates : Qualifies(w))
        => GT(best_r_squared, r_squared_threshold)

(***************************************************************************)
(* C3  As amended: if any candidate window has R^2 strictly greater than   *)
(* the threshold and a strictly positive slope, the returned r_squared is  *)
(* strictly greater than the threshold; the fallback result is returned    *)
(* only when no window met the threshold with a strictly positive slope.   *)
(***************************************************************************)
C3_QualifyingPositiveWindow ==
    Returned =>
        LET some == \E w \in Candidates :
                        Qualifies(w) /\ GT(FitOf(w).slope, Zero)
        IN  /\ some => GT(best_r_squared, r_squared_threshold)
            /\ Result = Fallback => ~some

\* a call returned that scanned a qualifying window of negative slope
\* before a qualifying window of positive slope
C3_Witness ==
    /\ Returned
    /\ \E v, w \in Candidates :
          /\ Qualifies(v) /\ GT(Zero, FitOf(v).slope)
          /\ Qualifies(w) /\ GT(FitOf(w).slope, Zero)
          /\ ScannedBefore(v, w)

(***************************************************************************)
(* C4  The qualifying windows of maximal slope, and the first of them in   *)
(* scan order.                                                             *)
(***************************************************************************)
Steepest ==
    LET f == [w \in Candidates |-> FitOf(w)]
        q == {w \in Candidates : GT(f[w].r_squared, r_squared_threshold)}
    IN  {w \in q : \A v \in q : ~GT(f[v].slope, f[w].slope)}

FirstIn(S) == CHOOSE w \in S : \A v \in S \ {w} : ScannedBefore(w, v)

(***************************************************************************)
(* C4  As claimed: among all qualifying windows that share the maximal     *)
(* slope, the returned window is the first one in scan order (smallest     *)
(* window size, then smallest start).                                      *)
(***************************************************************************)
C4_TieBreakAnySlope ==
    Returned =>
        LET S == Steepest
        IN  S # {} => ReturnedWindow = FirstIn(S)

(***************************************************************************)
(* C4  As amended: provided the maximal slope of the qualifying windows is *)
(* strictly positive, the returned window is the first one in scan order   *)
(* among the qualifying windows that share it.                             *)
(***************************************************************************)
C4_TieBreak ==
    Returned =>
        LET S == Steepest
        IN  (\E w \in S : GT(FitOf(w).slope, Zero))
                => /\ ReturnedWindow = FirstIn(S)
                   /\ best_end = best_start + best_window_size

\* a call returned where the maximal positive slope is shared by windows
\* of two sizes and by two starts of the smaller size
C4_Witness ==
    /\ Returned
    /\ \E u, v, w \in Steepest :
          /\ GT(FitOf(u).slope, Zero)
          /\ u[1] = v[1] /\ u[2] < v[2]
          /\ v[1] < w[1]

C6_Fallback ==
    (Returned /\ \A w \in Candidates : LE(FitOf(w).r_squared, r_squared_threshold))
        => Result = Fallback

\* a call returned where every window failed the threshold although one
\* of them, of positive R^2, was steeper than the initial best slope
C6_Witness ==
    /\ Returned
    /\ \A w \in Candidates : LE(FitOf(w).r_squared, r_squared_threshold)
    /\ \E w \in Candidates : /\ GT(FitOf(w).slope, Zero)
                             /\ GT(FitOf(w).r_squared, Zero)

(***************************************************************************)
(* C7  Threshold gate: a returned result that is not the fallback has an   *)
(* r_squared strictly greater than the threshold, which is the R^2 of the  *)
(* returned window [start, end).                                           *)
(***************************************************************************)
C7_ThresholdGate ==
    (Returned /\ Result # Fallback) =>
        /\ GT(best_r_squared, r_squared_threshold)
        /\ best_r_squared = WindowFit(best_start, best_end).r_squared

\* a non-fallback result whose R^2 is below 1, returned by a call that
\* also scanned a steeper window that failed the threshold
C7_Witness ==
    /\ Returned
    /\ Result # Fallback
    /\ GT(One, best_r_squared)
    /\ \E w \in Candidates : /\ ~Qualifies(w)
                             /\ GT(FitOf(w).slope, best_slope)

C9_ConsistentBest ==
    pc \in {"scan", "returned"} =>
        /\ best_end - best_start = best_window_size
        /\ \/ Result = Fallback
           \/ /\ <<best_window_size, best_start>> \in Candidates
              /\ best_slope = WindowFit(best_start, best_end).slope
              /\ best_r_squared = WindowFit(best_start, best_end).r_squared

\* in the middle of a scan, after the best window has been replaced twice
C9_Witness ==
    /\ pc = "scan"
    /\ window_size <= max_window_size
    /\ start + window_size <= Len(time)
    /\ Result # Fallback
    /\ \E w \in Candidates :
          /\ ScannedBefore(w, ReturnedWindow)
          /\ Qualifies(w)
          /\ GT(FitOf(w).slope, Zero)
          /\ GT(best_slope, FitOf(w).slope)

(***************************************************************************)
(* C10  Driver refit agreement: after a replicate has been processed, the  *)
(* growth rate and R^2 appended for it are those of a regression over      *)
(* [start_index, end_index) as returned by detect_exponential_phase;       *)
(* whenever detect selected a qualifying window they equal the slope and   *)
(* r_squared detect returned, the growth rate is strictly positive and     *)
(* the doubling time is finite and is ln(2) / growth rate.                 *)
(***************************************************************************)
Processed == dpc \in {"call", "done"} /\ col > 1

C10_RefitAgreement ==
    Processed =>
        LET k == col - 1
            refit == Fit(Slice(time, best_start, best_end),
                         Slice(od_values, best_start, best_end))
        IN  /\ Len(growth_rates) = k
            /\ Len(doubling_times) = k
            /\ Len(r_squared_values) = k
            /\ od_values = data[Columns[k]]
            /\ growth_rates[k] = refit.slope
            /\ r_squared_values[k] = refit.r_squared
            /\ Result # Fallback =>
                  /\ growth_rates[k] = best_slope
                  /\ r_squared_values[k] = best_r_squared
                  /\ GT(growth_rates[k], Zero)
                  /\ IsFinite(doubling_times[k])
                  /\ doubling_times[k] = Div(One, best_slope)

\* the second replicate has been processed, detect having selected for it
\* a window that is neither the first scanned nor a perfect fit, while the
\* first replicate got the fallback and a refit different from it
C10_Witness ==
    /\ Processed
    /\ col = 3
    /\ Result # Fallback
    /\ ReturnedWindow # <<DefaultMinWindowSize, 0>>
    /\ GT(One, best_r_squared)
    /\ growth_rates[2] = best_slope
    /\ GT(Zero, growth_rates[1])
====
